---------------------------- MODULE Spec2Model ----------------------------
(***************************************************************************)
(* Model of the retry-policy engine of src/src/01_retry.js: the retry      *)
(* status, the policy primitives (constantDelay, limitRetries,             *)
(* exponentialBackoff), the combinators (capDelay, concat) and the         *)
(* simulation driver (applyPolicy, dryRun).                                *)
(*                                                                         *)
(* A value of type `number | undefined` is a sequence: <<>> is undefined   *)
(* and <<d>> is the number d.  A policy is a closure; it is modelled by    *)
(* the record of the function that created it and the values it captured,  *)
(* and Call applies it to a status by running the body of that function.   *)
(***************************************************************************)
EXTENDS Integers, Sequences, FiniteSets

VARIABLES
    startStatus,  \* the exported constant object startStatus
    policy,       \* dryRun: its parameter
    status,       \* dryRun: the local variable status
    out,          \* dryRun: the local array out
    pc,           \* dryRun: "idle" (not called), "loop" (at the while test), "returned"
    call          \* the last direct call of a policy or of applyPolicy, with its result

vars == <<startStatus, policy, status, out, pc, call>>

---------------------------------------------------------------------------
(* Bounds of the model *)

MaxDelay == 2     \* delays and caps given to the primitives: 0..MaxDelay
MaxRetries == 2   \* limitRetries(i) for i in 0..MaxRetries
MaxIter == 3      \* iterNumber of the statuses passed to direct calls: 0..MaxIter
MaxOut == 7       \* dryRun is followed until out holds MaxOut statuses

---------------------------------------------------------------------------
(* number | undefined *)

undefined == <<>>
Num(d) == <<d>>
Val(x) == x[1]

\* Math.max and Math.min on two numbers
MathMax(x, y) == IF x >= y THEN x ELSE y
MathMin(x, y) == IF x <= y THEN x ELSE y

\* Math.pow(base, exponent) for a non-negative integer exponent
RECURSIVE MathPow(_, _)
MathPow(base, exponent) ==
    IF exponent = 0 THEN 1 ELSE base * MathPow(base, exponent - 1)

---------------------------------------------------------------------------
(* The model: RetryStatus *)

RetryStatus(iterNumber, previousDelay) ==
    [iterNumber |-> iterNumber, previousDelay |-> previousDelay]

InitialStatus == RetryStatus(0, undefined)

---------------------------------------------------------------------------
(* Primitives and combinators: the closures they return *)

constantDelay(delay) == [fn |-> "constantDelay", delay |-> delay]

limitRetries(i) == [fn |-> "limitRetries", i |-> i]

exponentialBackoff(delay) == [fn |-> "exponentialBackoff", delay |-> delay]

capDelay(maxDelay, p) == [fn |-> "capDelay", maxDelay |-> maxDelay, policy |-> p]

concat(second, first) == [fn |-> "concat", second |-> second, first |-> first]

\* A policy supplied by the caller, not built by this module: it answers
\* `delay` on the status `at` and undefined on every other status.
callerPolicy(at, delay) == [fn |-> "caller", at |-> at, delay |-> delay]

---------------------------------------------------------------------------
(* The bodies of the closures *)

RECURSIVE Call(_, _)

\* faulty variant: a delay of 0 is taken for "no delay given"
constantDelayPolicy_ZeroIsUndefined(delay, s) ==
    IF delay = 0 THEN undefined ELSE Num(delay)

constantDelayPolicy(delay, s) == Num(delay)

\* faulty variant: -1 for undefined as the answer "stop"
limitRetriesPolicy_MinusOne(i, s) ==
    IF s.iterNumber >= i THEN Num(-1) ELSE Num(0)

\* faulty variant: > for >=, one retry too many
limitRetriesPolicy_OffByOne(i, s) ==
    IF s.iterNumber > i THEN undefined ELSE Num(0)

limitRetriesPolicy(i, s) ==
    IF s.iterNumber >= i THEN undefined ELSE Num(0)

\* faulty variant: the previous delay is doubled, once there is one
exponentialBackoffPolicy_FromPrevious(delay, s) ==
    IF s.previousDelay = undefined THEN Num(delay)
    ELSE Num(2 * Val(s.previousDelay))

\* faulty variant: linear growth, 2 * iterNumber for 2^iterNumber
exponentialBackoffPolicy_Linear(delay, s) ==
    Num(delay * 2 * s.iterNumber)

exponentialBackoffPolicy(delay, s) ==
    Num(delay * MathPow(2, s.iterNumber))

\* faulty variant: `delay ?` for `delay === undefined ?`, a delay of 0 stops
capDelayPolicy_ZeroStops(maxDelay, p, s) ==
    LET delay == Call(p, s)
    IN  IF delay = undefined \/ delay = Num(0) THEN undefined
        ELSE Num(MathMin(maxDelay, Val(delay)))

\* faulty variant: the delay is passed on without the cap
capDelayPolicy_NoCap(maxDelay, p, s) ==
    Call(p, s)

\* faulty variant: the excess over the cap is returned for the cap
capDelayPolicy_Excess(maxDelay, p, s) ==
    LET delay == Call(p, s)
    IN  IF delay = undefined THEN undefined
        ELSE IF Val(delay) > maxDelay THEN Num(Val(delay) - maxDelay)
        ELSE delay

\* faulty variant: Math.max for Math.min
capDelayPolicy_Max(maxDelay, p, s) ==
    LET delay == Call(p, s)
    IN  IF delay = undefined THEN undefined
        ELSE Num(MathMax(maxDelay, Val(delay)))

capDelayPolicy(maxDelay, p, s) ==
    LET delay == Call(p, s)
    IN  IF delay = undefined THEN undefined
        ELSE Num(MathMin(maxDelay, Val(delay)))

\* faulty variant: the two delays are added
concatPolicy_Sum(second, first, s) ==
    LET delay1 == Call(first, s)
        delay2 == Call(second, s)
    IN  IF delay1 # undefined /\ delay2 # undefined
        THEN Num(Val(delay1) + Val(delay2))
        ELSE undefined

\* faulty variant: Math.min for Math.max
concatPolicy_Min(second, first, s) ==
    LET delay1 == Call(first, s)
        delay2 == Call(second, s)
    IN  IF delay1 # undefined /\ delay2 # undefined
        THEN Num(MathMin(Val(delay1), Val(delay2)))
        ELSE undefined

\* faulty variant: only delay1 is tested, an undefined delay2 is ignored
concatPolicy_SecondStopIgnored(second, first, s) ==
    LET delay1 == Call(first, s)
        delay2 == Call(second, s)
    IN  IF delay1 = undefined THEN undefined
        ELSE IF delay2 = undefined THEN delay1
        ELSE Num(MathMax(Val(delay1), Val(delay2)))

\* faulty variant: the first delay is returned when both are defined
concatPolicy_FirstWins(second, first, s) ==
    LET delay1 == Call(first, s)
        delay2 == Call(second, s)
    IN  IF delay1 # undefined /\ delay2 # undefined
        THEN delay1
        ELSE undefined

concatPolicy(second, first, s) ==
    LET delay1 == Call(first, s)
        delay2 == Call(second, s)
    IN  IF delay1 # undefined /\ delay2 # undefined
        THEN Num(MathMax(Val(delay1), Val(delay2)))
        ELSE undefined

callerPolicyBody(at, delay, s) == IF s = at THEN delay ELSE undefined

\* policy(status): apply a closure to a status
Call(p, s) ==
    CASE p.fn = "constantDelay" -> constantDelayPolicy(p.delay, s)
      [] p.fn = "limitRetries" -> limitRetriesPolicy(p.i, s)
      [] p.fn = "exponentialBackoff" -> exponentialBackoffPolicy(p.delay, s)
      [] p.fn = "capDelay" -> capDelayPolicy(p.maxDelay, p.policy, s)
      [] p.fn = "concat" -> concatPolicy(p.second, p.first, s)
      [] p.fn = "caller" -> callerPolicyBody(p.at, p.delay, s)

---------------------------------------------------------------------------
(* The simulation driver *)

\* faulty variant: the policy is evaluated on the incremented status
applyPolicy_OnIncremented(p, s) ==
    RetryStatus(s.iterNumber + 1,
                Call(p, RetryStatus(s.iterNumber + 1, s.previousDelay)))

applyPolicy(p, s) ==
    RetryStatus(s.iterNumber + 1, Call(p, s))

\* pipe(constantDelay(300), concat(exponentialBackoff(200)),
\*      concat(limitRetries(5)), capDelay(2000))
myPolicy ==
    capDelay(2000,
        concat(limitRetries(5),
            concat(exponentialBackoff(200), constantDelay(300))))

---------------------------------------------------------------------------
(* Inputs *)

DelaySet == 0..MaxDelay

OptionSet == {undefined} \cup {Num(d) : d \in DelaySet}

StatusSet ==
    {RetryStatus(n, d) : n \in 0..MaxIter, d \in OptionSet}

\* the primitives, and the caller's policies that answer at the status s
BasePolicies(s) ==
    {constantDelay(d) : d \in DelaySet}
        \cup {limitRetries(i) : i \in 0..MaxRetries}
        \cup {exponentialBackoff(d) : d \in DelaySet}
        \cup {callerPolicy(s, r) : r \in OptionSet}

\* the base policies and one merge of two of them
MergedPolicies(s) ==
    BasePolicies(s)
        \cup {concat(q, p) : q \in BasePolicies(s), p \in BasePolicies(s)}

\* the merged policies and the base policies under one cap
CappedPolicies(s) ==
    MergedPolicies(s)
        \cup {capDelay(m, p) : m \in DelaySet, p \in BasePolicies(s)}

\* the policies dryRun is called on
DryRunPolicies ==
    MergedPolicies(InitialStatus)
        \cup {capDelay(m, p) : m \in DelaySet, p \in BasePolicies(InitialStatus)}
        \cup {myPolicy}

NoCall == [op |-> "none"]

---------------------------------------------------------------------------
(* dryRun, one step of its code per action *)

\* faulty variant: the first step is made in place, startStatus itself is advanced
DryRunEnter_InPlace ==
    /\ pc \in {"idle", "returned"}
    /\ \E p \in DryRunPolicies :
        /\ policy' = p
        /\ status' = applyPolicy(p, startStatus)
        /\ out' = <<applyPolicy(p, startStatus)>>
        /\ startStatus' = applyPolicy(p, startStatus)
    /\ pc' = "loop"
    /\ UNCHANGED call

\* var apply = applyPolicy(policy); var status = apply(startStatus); var out = [status];
DryRunEnter ==
    /\ pc \in {"idle", "returned"}
    /\ \E p \in DryRunPolicies :
        /\ policy' = p
        /\ status' = applyPolicy(p, startStatus)
        /\ out' = <<applyPolicy(p, startStatus)>>
    /\ pc' = "loop"
    /\ UNCHANGED <<startStatus, call>>

\* faulty variant: out.push(apply(...)) without the assignment to status
DryRunLoop_StatusNotAssigned ==
    /\ pc = "loop"
    /\ status.previousDelay # undefined
    /\ Len(out) < MaxOut
    /\ out' = Append(out, applyPolicy(policy, out[Len(out)]))
    /\ UNCHANGED <<startStatus, policy, status, pc, call>>

\* faulty variant: apply(startStatus) for apply(out[out.length - 1])
DryRunLoop_FromStart ==
    /\ pc = "loop"
    /\ status.previousDelay # undefined
    /\ Len(out) < MaxOut
    /\ status' = applyPolicy(policy, startStatus)
    /\ out' = Append(out, applyPolicy(policy, startStatus))
    /\ UNCHANGED <<startStatus, policy, pc, call>>

\* faulty variant: do { ... } while (...), the body runs once before the first test
DryRunLoop_DoWhile ==
    /\ pc = "loop"
    /\ status.previousDelay # undefined \/ Len(out) = 1
    /\ Len(out) < MaxOut
    /\ status' = applyPolicy(policy, out[Len(out)])
    /\ out' = Append(out, applyPolicy(policy, out[Len(out)]))
    /\ UNCHANGED <<startStatus, policy, pc, call>>

\* faulty variant: out.unshift for out.push
DryRunLoop_Unshift ==
    /\ pc = "loop"
    /\ status.previousDelay # undefined
    /\ Len(out) < MaxOut
    /\ status' = applyPolicy(policy, out[Len(out)])
    /\ out' = <<applyPolicy(policy, out[Len(out)])>> \o out
    /\ UNCHANGED <<startStatus, policy, pc, call>>

\* while (status.previousDelay !== undefined) out.push((status = apply(out[out.length - 1])));
DryRunLoop ==
    /\ pc = "loop"
    /\ status.previousDelay # undefined
    /\ Len(out) < MaxOut
    /\ status' = applyPolicy(policy, out[Len(out)])
    /\ out' = Append(out, applyPolicy(policy, out[Len(out)]))
    /\ UNCHANGED <<startStatus, policy, pc, call>>

\* faulty variant: the loop also ends after a fixed number of iterations
DryRunReturn_IterationLimit ==
    /\ pc = "loop"
    /\ status.previousDelay = undefined \/ Len(out) >= 5
    /\ pc' = "returned"
    /\ UNCHANGED <<startStatus, policy, status, out, call>>

\* the while test fails; return out;
DryRunReturn ==
    /\ pc = "loop"
    /\ status.previousDelay = undefined
    /\ pc' = "returned"
    /\ UNCHANGED <<startStatus, policy, status, out, call>>

---------------------------------------------------------------------------
(* Direct calls of the policies and of applyPolicy: a behaviour makes one   *)
(* call, on inputs of its choice, and records the call and its result.     *)

CallConstantDelay ==
    /\ call = NoCall
    /\ \E delay \in DelaySet, s \in StatusSet :
        call' = [op |-> "constantDelay", delay |-> delay, status |-> s,
                 result |-> Call(constantDelay(delay), s)]
    /\ UNCHANGED <<startStatus, policy, status, out, pc>>

CallLimitRetries ==
    /\ call = NoCall
    /\ \E i \in 0..MaxRetries, s \in StatusSet :
        call' = [op |-> "limitRetries", i |-> i, status |-> s,
                 result |-> Call(limitRetries(i), s)]
    /\ UNCHANGED <<startStatus, policy, status, out, pc>>

CallExponentialBackoff ==
    /\ call = NoCall
    /\ \E delay \in DelaySet, s \in StatusSet :
        call' = [op |-> "exponentialBackoff", delay |-> delay, status |-> s,
                 result |-> Call(exponentialBackoff(delay), s)]
    /\ UNCHANGED <<startStatus, policy, status, out, pc>>

CallCapDelay ==
    /\ call = NoCall
    /\ \E s \in StatusSet :
       \E maxDelay \in DelaySet, p \in CappedPolicies(s) :
        call' = [op |-> "capDelay", maxDelay |-> maxDelay, policy |-> p,
                 status |-> s, result |-> Call(capDelay(maxDelay, p), s)]
    /\ UNCHANGED <<startStatus, policy, status, out, pc>>

CallConcat ==
    /\ call = NoCall
    /\ \E s \in StatusSet :
       \E second \in BasePolicies(s), first \in MergedPolicies(s) :
        call' = [op |-> "concat", second |-> second, first |-> first,
                 status |-> s, result |-> Call(concat(second, first), s)]
    /\ UNCHANGED <<startStatus, policy, status, out, pc>>

CallApplyPolicy ==
    /\ call = NoCall
    /\ \E s \in StatusSet :
       \E p \in MergedPolicies(s) :
        call' = [op |-> "applyPolicy", policy |-> p, status |-> s,
                 result |-> applyPolicy(p, s)]
    /\ UNCHANGED <<startStatus, policy, status, out, pc>>

---------------------------------------------------------------------------
(* Specifications *)

Init ==
    /\ startStatus = InitialStatus
    /\ policy = constantDelay(0)
    /\ status = InitialStatus
    /\ out = <<>>
    /\ pc = "idle"
    /\ call = NoCall

\* Spec: calls of dryRun
Next ==
    \/ DryRunEnter
    \/ DryRunLoop
    \/ DryRunReturn

Spec == Init /\ [][Next]_vars

\* FairSpec: calls of dryRun that run on: the loop is synchronous code, so a
\* step of it that can be taken is taken.
FairSpec ==
    /\ Init
    /\ [][Next]_vars
    /\ WF_vars(DryRunLoop)
    /\ WF_vars(DryRunReturn)

\* PolicySpec: direct calls of the policies and of applyPolicy
PolicyNext ==
    \/ CallConstantDelay
    \/ CallLimitRetries
    \/ CallExponentialBackoff
    \/ CallCapDelay
    \/ CallConcat
    \/ CallApplyPolicy

PolicySpec == Init /\ [][PolicyNext]_vars

---------------------------------------------------------------------------
(* Properties of dryRun (checked under Spec) *)

ExpectedMyPolicyRun ==
    << RetryStatus(1, Num(300)), RetryStatus(2, Num(400)),
       RetryStatus(3, Num(800)), RetryStatus(4, Num(1600)),
       RetryStatus(5, Num(2000)), RetryStatus(6, undefined) >>

\* C1: dryRun(myPolicy), with myPolicy = pipe(constantDelay(300),
\* concat(exponentialBackoff(200)), concat(limitRetries(5)), capDelay(2000)),
\* returns exactly the six statuses {1, 300}, {2, 400}, {3, 800}, {4, 1600},
\* {5, 2000}, {6, undefined}, in this order.
C1_DryRunMyPolicy ==
    (pc = "returned" /\ policy = myPolicy) => out = ExpectedMyPolicyRun

C1_Witness ==
    pc = "returned" /\ policy = myPolicy /\ Len(out) = 6

---------------------------------------------------------------------------
(* Properties of the policies and of applyPolicy (checked under PolicySpec) *)

\* the greatest and the least of two numbers, stated without Math.max and Math.min
Greatest(x, y) == CHOOSE m \in {x, y} : \A n \in {x, y} : m >= n
Least(x, y) == CHOOSE m \in {x, y} : \A n \in {x, y} : m <= n

\* C2: when first(s) and second(s) are both delays, concat(second)(first)(s)
\* is the maximum of the two delays.
C2_ConcatIsMax ==
    call.op = "concat" =>
        LET delay1 == Call(call.first, call.status)
            delay2 == Call(call.second, call.status)
        IN  (delay1 # undefined /\ delay2 # undefined) =>
                call.result = Num(Greatest(Val(delay1), Val(delay2)))

C2_Witness ==
    /\ call.op = "concat"
    /\ Call(call.first, call.status) # undefined
    /\ Call(call.second, call.status) # undefined
    /\ Val(Call(call.first, call.status)) < Val(Call(call.second, call.status))
    /\ call.result = Call(call.second, call.status)

\* C3: concat(second)(first)(s) is undefined if and only if first(s) is
\* undefined or second(s) is undefined.
C3_ConcatStopsIffEitherStops ==
    call.op = "concat" =>
        (call.result = undefined <=>
            (\/ Call(call.first, call.status) = undefined
             \/ Call(call.second, call.status) = undefined))

C3_Witness ==
    /\ call.op = "concat"
    /\ Call(call.first, call.status) # undefined
    /\ Call(call.second, call.status) = undefined
    /\ call.result = undefined

\* C4: concat is associative: concat(c)(concat(b)(a))(s) equals
\* concat(concat(c)(b))(a)(s), also when a(s), b(s) or c(s) is undefined.
C4_ConcatAssociative ==
    (call.op = "concat" /\ call.first.fn = "concat") =>
        LET a == call.first.first
            b == call.first.second
            c == call.second
        IN  call.result = Call(concat(concat(c, b), a), call.status)

C4_Witness ==
    /\ call.op = "concat"
    /\ call.first.fn = "concat"
    /\ Call(call.first.first, call.status) # undefined
    /\ Call(call.first.second, call.status) = undefined
    /\ Call(call.second, call.status) # undefined
    /\ call.result = undefined

\* C5: concat is commutative: concat(b)(a)(s) equals concat(a)(b)(s).
C5_ConcatCommutative ==
    call.op = "concat" =>
        call.result = Call(concat(call.first, call.second), call.status)

C5_Witness ==
    /\ call.op = "concat"
    /\ call.result # undefined
    /\ Call(call.first, call.status) # Call(call.second, call.status)
    /\ call.result = Call(call.first, call.status)

\* C6: capDelay(m)(p)(s) is undefined if and only if p(s) is undefined;
\* otherwise it equals min(m, p(s)).
C6_CapDelayIsMin ==
    call.op = "capDelay" =>
        LET delay == Call(call.policy, call.status)
        IN  /\ call.result = undefined <=> delay = undefined
            /\ delay # undefined =>
                   call.result = Num(Least(call.maxDelay, Val(delay)))

C6_Witness ==
    /\ call.op = "capDelay"
    /\ Call(call.policy, call.status) # undefined
    /\ Val(Call(call.policy, call.status)) > call.maxDelay
    /\ call.result = Num(call.maxDelay)

\* C7: limitRetries(n)(s) is 0 when s.iterNumber < n and undefined when
\* s.iterNumber >= n, whatever s.previousDelay is.
C7_LimitRetriesGate ==
    call.op = "limitRetries" =>
        /\ call.status.iterNumber < call.i => call.result = Num(0)
        /\ call.status.iterNumber >= call.i => call.result = undefined
        /\ \A d \in OptionSet :
               Call(limitRetries(call.i), RetryStatus(call.status.iterNumber, d))
                   = call.result

C7_Witness ==
    /\ call.op = "limitRetries"
    /\ call.status.iterNumber = call.i
    /\ call.status.previousDelay # undefined
    /\ call.result = undefined

\* C8: constantDelay(d)(s) equals d for every d >= 0 and every status s,
\* so it is never undefined.
C8_ConstantDelay ==
    call.op = "constantDelay" => call.result = Num(call.delay)

C8_Witness ==
    /\ call.op = "constantDelay"
    /\ call.delay = 0
    /\ call.status.iterNumber > 0
    /\ call.status.previousDelay = undefined
    /\ call.result = Num(0)

\* C9: exponentialBackoff(d)(s) equals d * 2^(s.iterNumber) for every d >= 0
\* and every status s, and it is never undefined.
C9_ExponentialBackoff ==
    call.op = "exponentialBackoff" =>
        /\ call.result # undefined
        /\ Val(call.result) = call.delay * 2^(call.status.iterNumber)

C9_Witness ==
    /\ call.op = "exponentialBackoff"
    /\ call.delay > 0
    /\ call.status.iterNumber >= 2
    /\ Val(call.result) = 4 * call.delay

\* C10: applyPolicy(p)(s) is the status whose iterNumber is s.iterNumber + 1
\* and whose previousDelay is p(s), p being evaluated on s itself and not on
\* the incremented status.
C10_ApplyPolicy ==
    call.op = "applyPolicy" =>
        /\ DOMAIN call.result = {"iterNumber", "previousDelay"}
        /\ call.result.iterNumber = call.status.iterNumber + 1
        /\ call.result.previousDelay = Call(call.policy, call.status)

C10_Witness ==
    /\ call.op = "applyPolicy"
    /\ Call(call.policy, call.status)
           # Call(call.policy, [call.status EXCEPT !.iterNumber = @ + 1])
    /\ call.result.previousDelay # undefined
    /\ call.result.iterNumber = call.status.iterNumber + 1

---------------------------------------------------------------------------
(* More properties of dryRun (checked under Spec) *)

\* The status a policy is asked about at its n-th decision (n = 0, 1, ...)
\* of a simulation, and that decision, unfolded from the initial status.
RECURSIVE Reached(_, _)
Reached(p, n) ==
    IF n = 0 THEN InitialStatus
    ELSE [iterNumber |-> n, previousDelay |-> Call(p, Reached(p, n - 1))]

Decision(p, n) == Call(p, Reached(p, n))

\* p stops within the first MaxOut decisions
StopsInBounds(p) == \E n \in 0..(MaxOut - 1) : Decision(p, n) = undefined

\* the number of decisions up to and including the first undefined one
DecisionsToStop(p) ==
    CHOOSE k \in 1..MaxOut :
        /\ Decision(p, k - 1) = undefined
        /\ \A n \in 0..(k - 2) : Decision(p, n) # undefined

\* C11: the k-th element of the sequence of dryRun has iterNumber k, and the
\* returned sequence is as long as the number of policy decisions up to and
\* including the first undefined one.
C11_IterNumbersAndLength ==
    /\ pc # "idle" => \A k \in 1..Len(out) : out[k].iterNumber = k
    /\ pc = "returned" => Len(out) = DecisionsToStop(policy)

C11_Witness ==
    /\ pc = "returned"
    /\ Len(out) = 3
    /\ out[3].iterNumber = 3
    /\ Decision(policy, 1) # undefined
    /\ Decision(policy, 2) = undefined

\* C12: in the sequence dryRun returns, the last element has previousDelay
\* undefined and every earlier element has a defined previousDelay.
C12_OnlyLastUndefined ==
    pc = "returned" =>
        /\ out[Len(out)].previousDelay = undefined
        /\ \A k \in 1..(Len(out) - 1) : out[k].previousDelay # undefined

C12_Witness ==
    /\ pc = "returned"
    /\ Len(out) >= 3
    /\ out[Len(out)].previousDelay = undefined
    /\ out[Len(out) - 1].previousDelay # undefined

\* C13: dryRun(p) terminates for every policy p that yields undefined at some
\* finite iteration: if p yields undefined at the status reached at iterNumber
\* N, the loop exits, and out never holds more than N + 1 elements.
\* (Checked under FairSpec, for N < MaxOut.)
C13_DryRunTerminates ==
    /\ []((pc = "loop" /\ StopsInBounds(policy))
            => Len(out) <= DecisionsToStop(policy))
    /\ ((pc = "loop" /\ StopsInBounds(policy)) ~> (pc = "returned"))

C13_Witness ==
    /\ pc = "returned"
    /\ StopsInBounds(policy)
    /\ DecisionsToStop(policy) = 3
    /\ Len(out) = 3

\* A policy built from constantDelay, exponentialBackoff, concat and capDelay
\* only: it yields a delay at every status.
RECURSIVE Unlimited(_)
Unlimited(p) ==
    CASE p.fn \in {"constantDelay", "exponentialBackoff"} -> TRUE
      [] p.fn = "capDelay" -> Unlimited(p.policy)
      [] p.fn = "concat" -> Unlimited(p.first) /\ Unlimited(p.second)
      [] OTHER -> FALSE

\* C14: dryRun has no guard of its own against a policy that never stops: for
\* a policy that yields a delay at every status, the loop never exits and out
\* grows by one element at every step, as far as the run is followed.
C14_NoGuardAgainstUnlimited ==
    /\ []((pc # "idle" /\ Unlimited(policy)) =>
            /\ pc = "loop"
            /\ \A k \in 1..Len(out) : out[k].previousDelay # undefined
            /\ ~ ENABLED DryRunReturn
            /\ Len(out) < MaxOut => ENABLED DryRunLoop)
    /\ [][(pc = "loop" /\ Unlimited(policy)) =>
            (pc' = "loop" /\ policy' = policy /\ Len(out') = Len(out) + 1)]_vars

C14_Witness ==
    /\ pc = "loop"
    /\ Unlimited(policy)
    /\ policy.fn = "capDelay"
    /\ Len(out) = MaxOut

---------------------------------------------------------------------------
(* More properties of the policies (checked under PolicySpec) *)

\* C15: capDelay(m) applied twice with the same m is capDelay(m) applied once:
\* capDelay(m)(capDelay(m)(p))(s) equals capDelay(m)(p)(s).
C15_CapDelayIdempotent ==
    (/\ call.op = "capDelay"
     /\ call.policy.fn = "capDelay"
     /\ call.policy.maxDelay = call.maxDelay)
        => call.result = Call(capDelay(call.maxDelay, call.policy.policy), call.status)

C15_Witness ==
    /\ call.op = "capDelay"
    /\ call.policy.fn = "capDelay"
    /\ call.policy.maxDelay = call.maxDelay
    /\ Call(call.policy.policy, call.status) # undefined
    /\ Val(Call(call.policy.policy, call.status)) > 2 * call.maxDelay
    /\ call.result = Num(call.maxDelay)

\* a policy built by this module only, with delays, caps and limits >= 0
RECURSIVE BuiltNonNegative(_)
BuiltNonNegative(p) ==
    CASE p.fn \in {"constantDelay", "exponentialBackoff"} -> p.delay >= 0
      [] p.fn = "limitRetries" -> p.i >= 0
      [] p.fn = "capDelay" -> p.maxDelay >= 0 /\ BuiltNonNegative(p.policy)
      [] p.fn = "concat" -> BuiltNonNegative(p.first) /\ BuiltNonNegative(p.second)
      [] OTHER -> FALSE

\* the policy a direct call applied to its status
CalledPolicy ==
    CASE call.op = "constantDelay" -> constantDelay(call.delay)
      [] call.op = "limitRetries" -> limitRetries(call.i)
      [] call.op = "exponentialBackoff" -> exponentialBackoff(call.delay)
      [] call.op = "capDelay" -> capDelay(call.maxDelay, call.policy)
      [] call.op = "concat" -> concat(call.second, call.first)

\* C16: a policy built from constantDelay(d), exponentialBackoff(d),
\* limitRetries(n), concat and capDelay(m), with d >= 0 and m >= 0, yields on
\* every status with iterNumber >= 0 either undefined or a number >= 0.
C16_NonNegativeOrUndefined ==
    (/\ call.op \in {"constantDelay", "limitRetries", "exponentialBackoff",
                     "capDelay", "concat"}
     /\ BuiltNonNegative(CalledPolicy)
     /\ call.status.iterNumber >= 0)
        => (call.result = undefined \/ Val(call.result) >= 0)

C16_Witness ==
    /\ call.op = "capDelay"
    /\ BuiltNonNegative(CalledPolicy)
    /\ call.policy.fn = "concat"
    /\ call.policy.first.fn = "limitRetries"
    /\ call.status.iterNumber > 0
    /\ call.result = Num(0)

---------------------------------------------------------------------------
(* More properties of dryRun (checked under Spec) *)

\* C17: the initial status is {iterNumber: 0, previousDelay: undefined}; the
\* first policy evaluation of dryRun is made on it; it keeps that value
\* through any number of applyPolicy steps and dryRun calls; and a step of
\* applyPolicy leaves the status it is given as it was (the statuses already
\* in out are not changed by the step that derives the next one from them).
C17_StartStatusAndNoMutation ==
    /\ [](startStatus = [iterNumber |-> 0, previousDelay |-> undefined])
    /\ [](pc # "idle" =>
            out[1] = [iterNumber |-> 1,
                      previousDelay |-> Call(policy, [iterNumber |-> 0,
                                                     previousDelay |-> undefined])])
    /\ [][(pc = "loop" /\ pc' = "loop") =>
            (startStatus' = startStatus /\ SubSeq(out', 1, Len(out)) = out)]_vars

C17_Witness ==
    /\ pc = "returned"
    /\ Len(out) >= 3
    /\ startStatus = [iterNumber |-> 0, previousDelay |-> undefined]
    /\ out[1].previousDelay # undefined

\* C19: capDelay(m) bounds every delay the policy directs: every element of
\* dryRun(capDelay(m)(p)) has previousDelay undefined or <= m, and so has
\* every result of capDelay(m)(p) on any status.
C19_CapDelayUpperBound ==
    (pc # "idle" /\ policy.fn = "capDelay") =>
        /\ \A k \in 1..Len(out) :
               \/ out[k].previousDelay = undefined
               \/ Val(out[k].previousDelay) <= policy.maxDelay
        /\ \A s \in StatusSet :
               \/ Call(policy, s) = undefined
               \/ Val(Call(policy, s)) <= policy.maxDelay

C19_Witness ==
    /\ pc # "idle"
    /\ policy.fn = "capDelay"
    /\ Len(out) >= 3
    /\ Call(policy.policy, out[2]) # undefined
    /\ Val(Call(policy.policy, out[2])) > policy.maxDelay
    /\ out[3].previousDelay = Num(policy.maxDelay)

\* C20: the sequence of dryRun(p) is the chain of applyPolicy steps in the
\* order they were made: its first element is applyPolicy(p)(startStatus) and
\* each later element is applyPolicy(p) of the element before it, so the
\* previousDelay of element k is the decision of p on the status with
\* iterNumber k - 1.
C20_ChainOfApplyPolicy ==
    pc # "idle" =>
        /\ out[1] = [iterNumber |-> startStatus.iterNumber + 1,
                     previousDelay |-> Call(policy, startStatus)]
        /\ \A k \in 2..Len(out) :
               /\ out[k - 1].iterNumber = k - 1
               /\ out[k] = [iterNumber |-> out[k - 1].iterNumber + 1,
                            previousDelay |-> Call(policy, out[k - 1])]
        /\ status = out[Len(out)]

C20_Witness ==
    /\ pc = "returned"
    /\ Len(out) = 3
    /\ out[1].previousDelay # out[2].previousDelay
    /\ out[2].previousDelay = Call(policy, out[1])
    /\ out[3].previousDelay = undefined

\* C21: for every integer n >= 0, dryRun(limitRetries(n)) returns n statuses
\* with previousDelay 0 followed by one status with previousDelay undefined:
\* n + 1 elements, the last with iterNumber n + 1.
C21_LimitRetriesRun ==
    (pc = "returned" /\ policy.fn = "limitRetries" /\ policy.i >= 0) =>
        /\ Len(out) = policy.i + 1
        /\ \A k \in 1..policy.i :
               out[k] = [iterNumber |-> k, previousDelay |-> Num(0)]
        /\ out[policy.i + 1] =
               [iterNumber |-> policy.i + 1, previousDelay |-> undefined]

C21_Witness ==
    /\ pc = "returned"
    /\ policy.fn = "limitRetries"
    /\ policy.i = 2
    /\ Len(out) = 3
    /\ out[2].previousDelay = Num(0)

\* C22: dryRun returns a non-empty sequence; when the policy yields undefined
\* on the initial status, dryRun returns the single status
\* {iterNumber: 1, previousDelay: undefined} and the loop body is not entered.
C22_NonEmptyAndImmediateStop ==
    pc # "idle" =>
        /\ Len(out) >= 1
        /\ Call(policy, [iterNumber |-> 0, previousDelay |-> undefined]) = undefined
               => /\ out = <<[iterNumber |-> 1, previousDelay |-> undefined]>>
                  /\ ~ ENABLED DryRunLoop

C22_Witness ==
    /\ pc = "returned"
    /\ policy.fn = "concat"
    /\ policy.first.fn = "limitRetries"
    /\ policy.first.i = 0
    /\ Call(policy.second, [iterNumber |-> 0, previousDelay |-> undefined]) # undefined
    /\ out = <<[iterNumber |-> 1, previousDelay |-> undefined]>>

---------------------------------------------------------------------------
(* More properties of the policies (checked under PolicySpec) *)

\* a policy built only from constantDelay, limitRetries, exponentialBackoff,
\* concat and capDelay
RECURSIVE Built(_)
Built(p) ==
    CASE p.fn \in {"constantDelay", "limitRetries", "exponentialBackoff"} -> TRUE
      [] p.fn = "capDelay" -> Built(p.policy)
      [] p.fn = "concat" -> Built(p.first) /\ Built(p.second)
      [] OTHER -> FALSE

\* C23: a policy built only from constantDelay, limitRetries,
\* exponentialBackoff, concat and capDelay depends on the status through
\* iterNumber only: on two statuses with the same iterNumber and different
\* previousDelay (undefined included) it returns the same result.
C23_OnlyIterNumberMatters ==
    (/\ call.op \in {"constantDelay", "limitRetries", "exponentialBackoff",
                     "capDelay", "concat"}
     /\ Built(CalledPolicy))
        => \A d \in OptionSet :
               Call(CalledPolicy,
                    [iterNumber |-> call.status.iterNumber, previousDelay |-> d])
                   = call.result

C23_Witness ==
    /\ call.op = "capDelay"
    /\ Built(CalledPolicy)
    /\ call.policy.fn = "concat"
    /\ call.policy.first.fn = "exponentialBackoff"
    /\ call.policy.second.fn = "limitRetries"
    /\ call.status.previousDelay = Num(1)
    /\ call.result = Num(2)

---------------------------------------------------------------------------
(* More properties of dryRun (checked under Spec) *)

\* the length of dryRun(p): the number of decisions to the first undefined
\* one, or more than MaxOut for a policy that does not stop within MaxOut
RunLength(p) ==
    IF StopsInBounds(p) THEN DecisionsToStop(p) ELSE MaxOut + 1

\* C24: for built policies a and b of which at least one stops, dryRun of
\* concat(b)(a) is as long as the shorter of dryRun(a) and dryRun(b) (a policy
\* that never stops counting as infinite): the merged policy stops at the
\* first iteration at which a or b stops.
C24_ConcatRunLength ==
    (pc # "idle" /\ policy.fn = "concat" /\ Built(policy)) =>
        LET shorter == Least(RunLength(policy.first), RunLength(policy.second))
        IN  /\ Len(out) <= shorter
            /\ pc = "returned" => Len(out) = shorter

C24_Witness ==
    /\ pc = "returned"
    /\ policy.fn = "concat"
    /\ Built(policy)
    /\ RunLength(policy.first) = 3
    /\ RunLength(policy.second) = 2
    /\ Len(out) = 2

\* C25: capDelay changes the delays only, never the stop: for every m and
\* every built policy p that stops, dryRun(capDelay(m)(p)) has the length and
\* the iterNumbers of dryRun(p), its terminal element at the same position.
C25_CapDelayKeepsStop ==
    (pc # "idle" /\ policy.fn = "capDelay" /\ Built(policy)
        /\ StopsInBounds(policy.policy)) =>
        /\ Len(out) <= DecisionsToStop(policy.policy)
        /\ \A k \in 1..Len(out) :
               /\ out[k].iterNumber = Reached(policy.policy, k).iterNumber
               /\ (out[k].previousDelay = undefined)
                      <=> (Reached(policy.policy, k).previousDelay = undefined)
        /\ pc = "returned" => Len(out) = DecisionsToStop(policy.policy)

C25_Witness ==
    /\ pc = "returned"
    /\ policy.fn = "capDelay"
    /\ Built(policy)
    /\ Len(out) = 6
    /\ DecisionsToStop(policy.policy) = 6
    /\ out[5].previousDelay # Reached(policy.policy, 5).previousDelay

---------------------------------------------------------------------------
(* More properties of the policies (checked under PolicySpec) *)

\* C26: capDelay distributes over concat: capDelay(m)(concat(b)(a))(s) equals
\* concat(capDelay(m)(b))(capDelay(m)(a))(s), also when a(s) or b(s) is
\* undefined.
C26_CapDelayDistributes ==
    (call.op = "capDelay" /\ call.policy.fn = "concat") =>
        LET a == call.policy.first
            b == call.policy.second
            m == call.maxDelay
        IN  call.result = Call(concat(capDelay(m, b), capDelay(m, a)), call.status)

C26_Witness ==
    /\ call.op = "capDelay"
    /\ call.policy.fn = "concat"
    /\ Call(call.policy.first, call.status) # undefined
    /\ Call(call.policy.second, call.status) # undefined
    /\ Val(Call(call.policy.first, call.status)) < call.maxDelay
    /\ Val(Call(call.policy.second, call.status)) > call.maxDelay
    /\ call.result = Num(call.maxDelay)

\* C27: constantDelay(0) is neutral for concat on policies with delays >= 0:
\* concat(constantDelay(0))(p)(s) and concat(p)(constantDelay(0))(s) both
\* equal p(s), also when p(s) is undefined.
C27_ConstantDelayZeroNeutral ==
    call.op = "concat" =>
        /\ call.second = constantDelay(0)
               => call.result = Call(call.first, call.status)
        /\ call.first = constantDelay(0)
               => call.result = Call(call.second, call.status)

C27_Witness ==
    /\ call.op = "concat"
    /\ call.second = constantDelay(0)
    /\ call.first.fn = "concat"
    /\ call.result # undefined
    /\ Val(call.result) > 0

\* C28: concat is idempotent: concat(p)(p)(s) equals p(s), when p(s) is a
\* delay and when it is undefined.
C28_ConcatIdempotent ==
    (call.op = "concat" /\ call.first = call.second) =>
        call.result = Call(call.first, call.status)

C28_Witness ==
    /\ call.op = "concat"
    /\ call.first = call.second
    /\ call.result # undefined
    /\ Val(call.result) > 0

---------------------------------------------------------------------------
(* The loop invariant of dryRun (checked under Spec) *)

\* C29: every time the while condition of dryRun is tested, the local status
\* is the last element of out, out[k].iterNumber is k + 1 for every index k
\* (counted from 0), and every element of out but the last has a defined
\* previousDelay.
C29_LoopInvariant ==
    pc = "loop" =>
        /\ Len(out) >= 1
        /\ status = out[Len(out)]
        /\ \A k \in 0..(Len(out) - 1) : out[k + 1].iterNumber = k + 1
        /\ \A k \in 0..(Len(out) - 2) : out[k + 1].previousDelay # undefined

C29_Witness ==
    /\ pc = "loop"
    /\ Len(out) = 3
    /\ status = out[3]
    /\ status.previousDelay = undefined
    /\ out[2].previousDelay # undefined

=============================================================================
